---- MODULE Spec2Model ----
(***************************************************************************)
(* Model of get_prices.py: the four exchange price getters of PriceAPI,    *)
(* the priority fallback of PortfolioManager.get_first_valid_price and the *)
(* aggregation of PortfolioManager.calculate_portfolio.                    *)
(*                                                                         *)
(* Python values are tagged records [t |-> type, v |-> value]; a dict is a *)
(* function from its keys, a list is a sequence.  Prices and amounts are   *)
(* integers (every product and sum of the modelled values is exact in a    *)
(* Python float as well).                                                  *)
(***************************************************************************)
EXTENDS Integers, Sequences, FiniteSets, TLC

\* ------------------------------------------------------------------------
\* Bounds of the model
\* ------------------------------------------------------------------------

\* longest holdings list explored
MaxHoldings == 2

\* amounts a holding may carry (float(value) accepts negative and zero)
Amounts == {-1, 0, 2}

\* symbols handed to the getters directly (any letter case)
Coins == {"krw", "KRW", "Krw", "kRW", "btc", "BTC", "Btc", "zz"}

\* ------------------------------------------------------------------------
\* Python values
\* ------------------------------------------------------------------------

PyNone == [t |-> "null"]
JNum(n) == [t |-> "num", v |-> n]
JStr(s) == [t |-> "str", v |-> s]
JList(s) == [t |-> "list", v |-> s]
JDict(d) == [t |-> "dict", v |-> d]
EmptyDict == JDict(<<>>)

\* bool(x)
Truthy(j) ==
    CASE j.t = "null" -> FALSE
      [] j.t = "num"  -> j.v # 0
      [] j.t = "str"  -> j.v # ""
      [] j.t = "list" -> Len(j.v) > 0
      [] j.t = "dict" -> DOMAIN j.v # {}

\* str.lower() on the symbols of the model
Lower(s) ==
    CASE s = "KRW" -> "krw"
      [] s = "Krw" -> "krw"
      [] s = "kRW" -> "krw"
      [] s = "BTC" -> "btc"
      [] s = "Btc" -> "btc"
      [] OTHER -> s

\* str.upper() on the symbols of the model
Upper(s) ==
    CASE s = "krw" -> "KRW"
      [] s = "Krw" -> "KRW"
      [] s = "kRW" -> "KRW"
      [] s = "btc" -> "BTC"
      [] s = "Btc" -> "BTC"
      [] s = "zz" -> "ZZ"
      [] OTHER -> s

\* str(x) inside the f-strings that format a status or an error code; in
\* the bodies of the model the field is a string or missing (None)
PyStr(j) ==
    CASE j.t = "str"  -> j.v
      [] j.t = "null" -> "None"

\* decimal strings of the model and the number float() reads from them
NumericStrings == [s \in {"5", "0", "-3"} |->
                     CASE s = "5" -> 5 [] s = "0" -> 0 [] s = "-3" -> 0 - 3]

\* float(x): a number, or the exception float() raises
Float(j) ==
    CASE j.t = "num" -> [ok |-> TRUE, v |-> j.v]
      [] j.t = "str" -> IF j.v \in DOMAIN NumericStrings
                        THEN [ok |-> TRUE, v |-> NumericStrings[j.v]]
                        ELSE [ok |-> FALSE, exc |-> "ValueError"]
      [] OTHER -> [ok |-> FALSE, exc |-> "TypeError"]

\* d.get(key, default) on a dict
DictGet(d, key, default) ==
    IF key \in DOMAIN d.v THEN d.v[key] ELSE default

\* ------------------------------------------------------------------------
\* PriceAPI
\* ------------------------------------------------------------------------

\* self.token_map
token_map ==
    [c \in {"btc", "eth", "sol", "xrp", "ada", "doge", "link", "uni",
            "ai16z", "virtual", "sui", "fet", "usdc", "usdt"} |->
        CASE c = "btc" -> "bitcoin"
          [] c = "eth" -> "ethereum"
          [] c = "sol" -> "solana"
          [] c = "xrp" -> "ripple"
          [] c = "ada" -> "cardano"
          [] c = "doge" -> "dogecoin"
          [] c = "link" -> "chainlink"
          [] c = "uni" -> "uniswap"
          [] c = "ai16z" -> "ai16z"
          [] c = "virtual" -> "virtual-protocol"
          [] c = "sui" -> "sui"
          [] c = "fet" -> "fetch-ai"
          [] c = "usdc" -> "usd-coin"
          [] c = "usdt" -> "tether"]

\* What the transport does with one request: a RequestException (connection
\* failure, HTTP error status, and with requests >= 2.27 an undecodable body)
\* or a decoded JSON body.
Bodies ==
    { JList(<<>>),
      JList(<<JDict([trade_price |-> JNum(5)])>>),
      JList(<<JDict([trade_price |-> PyNone])>>),
      JList(<<JDict([market |-> JStr("KRW-BTC")])>>),
      JList(<<JDict([trade_price |-> JNum(0 - 3)])>>),
      JDict([error |-> JDict([name |-> JNum(404)])]),
      JDict([status |-> JStr("0000"), data |-> JDict([closing_price |-> JStr("5")])]),
      JDict([status |-> JStr("0000"), data |-> JDict([closing_price |-> JStr("x")])]),
      JDict([status |-> JStr("0000"), data |-> JDict([date |-> JStr("1")])]),
      JDict([status |-> JStr("0000")]),
      JDict([status |-> JStr("5500"), message |-> JStr("Invalid Parameter")]),
      JDict([errorCode |-> JStr("0"), last |-> JStr("5")]),
      JDict([errorCode |-> JStr("0"), result |-> JStr("success")]),
      JDict([errorCode |-> JStr("4"), result |-> JStr("error")]),
      JDict([bitcoin |-> JDict([krw |-> JNum(5)])]),
      JDict([bitcoin |-> JDict([krw |-> PyNone])]),
      JDict([bitcoin |-> PyNone]),
      EmptyDict,
      PyNone }

Transports == {[t |-> "exc", detail |-> "timeout"]} \cup Bodies

\* ExchangePrice(exchange, price, error)
ExchangePrice(exchange, price, error) ==
    [exchange |-> exchange, price |-> price, error |-> error]

\* ExchangePrice.is_error
is_error(q) == q.error.t # "null"

\* a getter returns an ExchangePrice or lets an exception escape;
\* requested tells whether it called _make_request
Return(q, req) == [kind |-> "return", quote |-> q, requested |-> req]
Raise(e, req) == [kind |-> "raise", exc |-> e, requested |-> req]

\* PriceAPI._make_request: the decoded body, or the text of the exception
_make_request(net) ==
    IF net.t = "exc" THEN JStr("Error: " \o net.detail) ELSE net

\* the quote-currency test without the lower-casing
IsQuoteCurrencyExact(coin) == coin = "krw"

\* coin.lower() == 'krw'
IsQuoteCurrency(coin) == Lower(coin) = "krw"

\* PriceAPI.get_upbit_price
get_upbit_price(coin, net) ==
    IF IsQuoteCurrency(coin)
    THEN Return(ExchangePrice("Upbit", 1, PyNone), FALSE)
    ELSE LET data == _make_request(net) IN
         IF data.t = "str"
         THEN Return(ExchangePrice("Upbit", 0, data), TRUE)
         ELSE IF ~Truthy(data)
         THEN Return(ExchangePrice("Upbit", 0, JStr("Error: Empty response from API")), TRUE)
         ELSE IF data.t \notin {"list", "dict"}
         THEN Raise("TypeError", TRUE)          \* len() of a number
         ELSE IF data.t = "dict"
         THEN Raise("KeyError", TRUE)           \* data[0] on a dict
         ELSE IF data.v[1].t # "dict"
         THEN Raise("AttributeError", TRUE)     \* .get on a non-dict
         ELSE LET f == Float(DictGet(data.v[1], "trade_price", JNum(0))) IN
              IF f.ok
              THEN Return(ExchangePrice("Upbit", f.v, PyNone), TRUE)
              ELSE Return(ExchangePrice("Upbit", 0, JStr("Error: Invalid price data")), TRUE)

\* PriceAPI.get_bithumb_price
get_bithumb_price(coin, net) ==
    IF IsQuoteCurrency(coin)
    THEN Return(ExchangePrice("Bithumb", 1, PyNone), FALSE)
    ELSE LET data == _make_request(net) IN
         IF data.t = "str"
         THEN Return(ExchangePrice("Bithumb", 0, data), TRUE)
         ELSE IF data.t # "dict"
         THEN Raise("AttributeError", TRUE)     \* data.get on a non-dict
         ELSE LET status == DictGet(data, "status", PyNone) IN
              IF ~(status.t = "str" /\ status.v = "0000")
              THEN Return(ExchangePrice("Bithumb", 0,
                       JStr("Error: API returned status " \o PyStr(status))), TRUE)
              ELSE IF "data" \notin DOMAIN data.v
              THEN Raise("KeyError", TRUE)      \* data["data"]
              ELSE IF data.v["data"].t # "dict"
              THEN Raise("AttributeError", TRUE)
              ELSE LET f == Float(DictGet(data.v["data"], "closing_price", JNum(0))) IN
                   IF f.ok
                   THEN Return(ExchangePrice("Bithumb", f.v, PyNone), TRUE)
                   ELSE Return(ExchangePrice("Bithumb", 0, JStr("Error: Invalid price data")), TRUE)

\* PriceAPI.get_coinone_price
get_coinone_price(coin, net) ==
    IF IsQuoteCurrency(coin)
    THEN Return(ExchangePrice("Coinone", 1, PyNone), FALSE)
    ELSE LET data == _make_request(net) IN
         IF data.t = "str"
         THEN Return(ExchangePrice("Coinone", 0, data), TRUE)
         ELSE IF data.t # "dict"
         THEN Raise("AttributeError", TRUE)     \* data.get on a non-dict
         ELSE LET errorCode == DictGet(data, "errorCode", PyNone) IN
              IF ~(errorCode.t = "str" /\ errorCode.v = "0")
              THEN Return(ExchangePrice("Coinone", 0,
                       JStr("Error: API returned errorCode " \o PyStr(errorCode))), TRUE)
              ELSE LET f == Float(DictGet(data, "last", JNum(0))) IN
                   IF f.ok
                   THEN Return(ExchangePrice("Coinone", f.v, PyNone), TRUE)
                   ELSE Return(ExchangePrice("Coinone", 0, JStr("Error: Invalid price data")), TRUE)

\* PriceAPI.get_coingecko_price
get_coingecko_price(coin, net) ==
    IF IsQuoteCurrency(coin)
    THEN Return(ExchangePrice("Coingecko", 1, PyNone), FALSE)
    ELSE LET token_id == IF Lower(coin) \in DOMAIN token_map
                         THEN token_map[Lower(coin)] ELSE Lower(coin)
             data == _make_request(net) IN
         IF data.t = "str"
         THEN Return(ExchangePrice("Coingecko", 0, data), TRUE)
         ELSE IF data.t # "dict"
         THEN Raise("AttributeError", TRUE)     \* data.get on a non-dict
         ELSE LET entry == DictGet(data, token_id, EmptyDict) IN
              IF entry.t # "dict"
              THEN Raise("AttributeError", TRUE)
              ELSE LET f == Float(DictGet(entry, "krw", JNum(0))) IN
                   IF f.ok
                   THEN Return(ExchangePrice("Coingecko", f.v, PyNone), TRUE)
                   ELSE Return(ExchangePrice("Coingecko", 0,
                            JStr("Error: Unable to get price for " \o coin)), TRUE)

\* ------------------------------------------------------------------------
\* PortfolioManager
\* ------------------------------------------------------------------------

\* the names of the exchanges list of get_first_valid_price, in its order
exchanges == <<"Upbit", "Bithumb", "Coinone", "Coingecko">>

\* the getter paired with exchanges[n]
get_price(n, coin, net) ==
    CASE n = 1 -> get_upbit_price(coin, net)
      [] n = 2 -> get_bithumb_price(coin, net)
      [] n = 3 -> get_coinone_price(coin, net)
      [] n = 4 -> get_coingecko_price(coin, net)

\* acceptance tests that get the condition of the loop wrong
AcceptsAboveOne(q) == ~is_error(q) /\ q.price > 1
AcceptsAnyQuote(q) == ~is_error(q)

\* the acceptance test of the loop: not result.is_error and result.price > 0
Accepts(q) == ~is_error(q) /\ q.price > 0

\* the value get_first_valid_price returns when the loop is exhausted
NoValidPrice == <<0, "No valid price found">>

VARIABLES
    holdings,        \* self.holdings
    pc,              \* position of the running call
    i,               \* index of the holding calculate_portfolio is at
    portfolio_data,  \* rows gathered so far
    total_value,     \* running total
    df,              \* the report calculate_portfolio returned
    symbol,          \* argument of the running get_first_valid_price / getter
    k,               \* index into exchanges of the next getter to call
    calls,           \* getter calls of the running resolution, in order
    result,          \* what get_first_valid_price returned
    results,         \* what it returned for each holding processed so far
    exc              \* the exception that ended the call, "" if none

vars == <<holdings, pc, i, portfolio_data, total_value, df, symbol, k, calls, result,
          results, exc>>

\* CryptoHolding(symbol, amount)
CryptoHolding(s, a) == [symbol |-> s, amount |-> a]

\* holdings load_holdings can produce: it lower-cases every symbol
HoldingSymbols == {Lower(c) : c \in {"KRW", "BTC"}}

HoldingLists ==
    UNION {[1..n -> {CryptoHolding(s, a) : s \in HoldingSymbols, a \in Amounts}] :
              n \in 0..MaxHoldings}

\* pd.NA
NA == [t |-> "NA"]

\* one dict appended to portfolio_data (the Time column, the same string in
\* every row of a run, is left out)
Row(holding, price, exchange) ==
    [Symbol |-> Upper(holding.symbol),
     Amount |-> JNum(holding.amount),
     Price |-> JNum(price),
     Exchange |-> JStr(exchange),
     Value |-> price * holding.amount]

\* the total row of calculate_portfolio
TotalRow(total) ==
    [Symbol |-> "TOTAL", Amount |-> NA, Price |-> NA, Exchange |-> NA, Value |-> total]

\* the order of an ascending sort
BeforeAscending(a, b) == a <= b

\* the order sort_values(ascending=False) puts two values in
Before(a, b) == a >= b

\* the places a row may be inserted at in an ordered frame
Insertions(sorted, r) ==
    { SubSeq(sorted, 1, n) \o <<r>> \o SubSeq(sorted, n + 1, Len(sorted)) :
        n \in { m \in 0..Len(sorted) :
                  /\ \A j \in 1..m : Before(sorted[j].Value, r.Value)
                  /\ \A j \in (m + 1)..Len(sorted) : Before(r.Value, sorted[j].Value) } }

\* df.sort_values(by="Total Value (KRW)", ascending=False).reset_index(drop=True):
\* every ordering the unstable default sort may give rows of equal value
RECURSIVE sort_values(_)
sort_values(rows) ==
    IF rows = <<>> THEN {<<>>}
    ELSE UNION { Insertions(s, Head(rows)) : s \in sort_values(Tail(rows)) }

\* PortfolioManager.__init__ has run: the holdings are loaded
Init ==
    /\ holdings \in HoldingLists
    /\ pc = "start"
    /\ i = 0
    /\ portfolio_data = <<>>
    /\ total_value = 0
    /\ df = <<>>
    /\ symbol = ""
    /\ k = 0
    /\ calls = <<>>
    /\ result = <<>>
    /\ results = <<>>
    /\ exc = ""

\* calculate_portfolio is entered
Begin ==
    /\ pc = "start"
    /\ portfolio_data' = <<>>
    /\ total_value' = 0
    /\ i' = 1
    /\ pc' = "loop"
    /\ UNCHANGED <<holdings, df, symbol, k, calls, result, results, exc>>

\* the holdings loop calls get_first_valid_price(holding.symbol)
CallResolve ==
    /\ pc = "loop"
    /\ i <= Len(holdings)
    /\ symbol' = holdings[i].symbol
    /\ k' = 1
    /\ calls' = <<>>
    /\ result' = <<>>
    /\ pc' = "resolve"
    /\ UNCHANGED <<holdings, i, portfolio_data, total_value, df, results, exc>>

\* one iteration of the loop of get_first_valid_price
Probe ==
    /\ pc = "resolve"
    /\ k <= Len(exchanges)
    /\ \E net \in Transports :
          LET out == get_price(k, symbol, net) IN
          /\ calls' = Append(calls, [exchange |-> exchanges[k], out |-> out])
          /\ IF out.kind = "raise"
             THEN /\ pc' = "raised"
                  /\ exc' = out.exc
                  /\ UNCHANGED <<k, result>>
             ELSE IF Accepts(out.quote)
             THEN /\ result' = <<out.quote.price, exchanges[k]>>
                  /\ pc' = "resolved"
                  /\ UNCHANGED <<k, exc>>
             ELSE /\ k' = k + 1
                  /\ UNCHANGED <<pc, result, exc>>
    /\ UNCHANGED <<holdings, i, portfolio_data, total_value, df, symbol, results>>

\* the loop of get_first_valid_price ran out of exchanges
Exhausted ==
    /\ pc = "resolve"
    /\ k > Len(exchanges)
    /\ result' = NoValidPrice
    /\ pc' = "resolved"
    /\ UNCHANGED <<holdings, i, portfolio_data, total_value, df, symbol, k, calls, results, exc>>

\* a loop body that skips the holdings nothing priced
AppendRowSkipsUnpriced ==
    /\ pc = "resolved"
    /\ LET price == result[1]
           exchange == result[2]
           total_holding_value == price * holdings[i].amount IN
       /\ total_value' = total_value + total_holding_value
       /\ portfolio_data' = IF total_holding_value = 0 THEN portfolio_data
                             ELSE Append(portfolio_data, Row(holdings[i], price, exchange))
    /\ results' = Append(results, result)
    /\ i' = i + 1
    /\ calls' = <<>>
    /\ pc' = "loop"
    /\ UNCHANGED <<holdings, df, symbol, k, result, exc>>

\* the body of the holdings loop after the price came back
AppendRow ==
    /\ pc = "resolved"
    /\ LET price == result[1]
           exchange == result[2]
           total_holding_value == price * holdings[i].amount IN
       /\ total_value' = total_value + total_holding_value
       /\ portfolio_data' = Append(portfolio_data, Row(holdings[i], price, exchange))
    /\ results' = Append(results, result)
    /\ i' = i + 1
    /\ calls' = <<>>
    /\ pc' = "loop"
    /\ UNCHANGED <<holdings, df, symbol, k, result, exc>>

\* a report that appends the total row before it sorts
BuildReportSortsTotal ==
    /\ pc = "loop"
    /\ i > Len(holdings)
    /\ \E sorted \in sort_values(Append(portfolio_data, TotalRow(total_value))) :
          df' = sorted
    /\ pc' = "done"
    /\ UNCHANGED <<holdings, i, portfolio_data, total_value, symbol, k, calls, result,
                   results, exc>>

\* after the loop: build the frame, sort it, append the total row.  A frame
\* built from an empty list has no columns, so sort_values raises KeyError.
BuildReport ==
    /\ pc = "loop"
    /\ i > Len(holdings)
    /\ IF portfolio_data = <<>>
       THEN /\ pc' = "raised"
            /\ exc' = "KeyError"
            /\ UNCHANGED df
       ELSE /\ \E sorted \in sort_values(portfolio_data) :
                  df' = Append(sorted, TotalRow(total_value))
            /\ pc' = "done"
            /\ UNCHANGED exc
    /\ UNCHANGED <<holdings, i, portfolio_data, total_value, symbol, k, calls, result, results>>

Next == Begin \/ CallResolve \/ Probe \/ Exhausted \/ AppendRow \/ BuildReport

Spec == Init /\ [][Next]_vars

\* ------------------------------------------------------------------------
\* get_first_valid_price called on its own, with a symbol in any letter case
\* ------------------------------------------------------------------------

InitResolve ==
    /\ holdings = <<>>
    /\ pc = "resolve"
    /\ i = 0
    /\ portfolio_data = <<>>
    /\ total_value = 0
    /\ df = <<>>
    /\ symbol \in Coins
    /\ k = 1
    /\ calls = <<>>
    /\ result = <<>>
    /\ results = <<>>
    /\ exc = ""

NextResolve == Probe \/ Exhausted

ResolveSpec == InitResolve /\ [][NextResolve]_vars

\* ------------------------------------------------------------------------
\* one getter called on its own, with a symbol in any letter case
\* ------------------------------------------------------------------------

InitGetter ==
    /\ holdings = <<>>
    /\ pc = "getter"
    /\ i = 0
    /\ portfolio_data = <<>>
    /\ total_value = 0
    /\ df = <<>>
    /\ symbol \in Coins
    /\ k = 0
    /\ calls = <<>>
    /\ result = <<>>
    /\ results = <<>>
    /\ exc = ""

\* get_<exchange>_price(symbol) is called and comes back
CallGetter ==
    /\ pc = "getter"
    /\ \E n \in 1..Len(exchanges), net \in Transports :
          LET out == get_price(n, symbol, net) IN
          /\ calls' = <<[exchange |-> exchanges[n], out |-> out]>>
          /\ exc' = IF out.kind = "raise" THEN out.exc ELSE ""
          /\ k' = n
          /\ pc' = "called"
    /\ UNCHANGED <<holdings, i, portfolio_data, total_value, df, symbol, result, results>>

NextGetter == CallGetter

GetterSpec == InitGetter /\ [][NextGetter]_vars

\* ------------------------------------------------------------------------
\* Properties
\* ------------------------------------------------------------------------

\* a getter call came back with a quote that has no error and a positive price
ValidCall(c) ==
    /\ c.out.kind = "return"
    /\ c.out.quote.error.t = "null"
    /\ c.out.quote.price > 0

\* the spellings of the quote currency among Coins
KrwSpellings == {"krw", "KRW", "Krw", "kRW"}

RECURSIVE SumValues(_)
SumValues(rows) == IF rows = <<>> THEN 0 ELSE Head(rows).Value + SumValues(Tail(rows))

\* the per-holding rows of a report
HoldingRows(report) == SubSeq(report, 1, Len(report) - 1)

IsTotalRow(r) == r.Symbol = "TOTAL" /\ r.Amount.t = "NA"

\* what the first n holdings are worth at the prices the resolver returned,
\* leaving out those nothing priced and those of amount 0
RECURSIVE PricedWorth(_)
PricedWorth(n) ==
    IF n = 0 THEN 0
    ELSE PricedWorth(n - 1) +
         (IF results[n] = <<0, "No valid price found">> \/ holdings[n].amount = 0
          THEN 0 ELSE results[n][1] * holdings[n].amount)

\* C1: within one resolution the sources are called in the order Upbit,
\* Bithumb, Coinone, Coingecko, none of them twice, and no source is called
\* after one that returned a quote with no error and a price > 0.
C1_ShortCircuit ==
    /\ Len(calls) <= Len(exchanges)
    /\ \A a \in 1..Len(calls) : calls[a].exchange = exchanges[a]
    /\ \A a, b \in 1..Len(calls) : a < b => calls[a].exchange # calls[b].exchange
    /\ \A a, b \in 1..Len(calls) : a < b => ~ValidCall(calls[a])

\* a resolution that Bithumb ended after Upbit had no usable quote
C1_Witness ==
    /\ pc = "resolved"
    /\ Len(calls) = 2
    /\ ~ValidCall(calls[1])
    /\ ValidCall(calls[2])

\* C2: get_first_valid_price returns the price and the name of the first
\* source, in the fixed order, whose quote has no error and a price > 0; when
\* all four sources were asked and none has such a quote it returns
\* (0.0, "No valid price found").
C2_FirstValidPrice ==
    pc = "resolved" =>
        LET valid == {a \in 1..Len(calls) : ValidCall(calls[a])} IN
        IF valid # {}
        THEN LET first == CHOOSE a \in valid : \A b \in valid : a <= b IN
             /\ result = <<calls[first].out.quote.price, exchanges[first]>>
             /\ \A a \in 1..Len(calls) : calls[a].exchange = exchanges[a]
        ELSE /\ result = <<0, "No valid price found">>
             /\ [a \in 1..Len(calls) |-> calls[a].exchange] = exchanges

\* all four sources returned errors and the resolver returned the sentinel
C2_Witness ==
    /\ pc = "resolved"
    /\ Len(calls) = 4
    /\ \A a \in 1..4 : calls[a].out.kind = "return" /\ calls[a].out.quote.error.t = "str"
    /\ result = <<0, "No valid price found">>

\* C3: a price getter never lets an exception escape: whatever the transport
\* did and whatever the body looks like, the call comes back with an
\* ExchangePrice.
C3_GetterNeverRaises ==
    \A a \in 1..Len(calls) : calls[a].out.kind = "return"

\* C4: calculate_portfolio returns a report whose non-total rows sum to the
\* value of the TOTAL row; for the empty holdings list the report is the
\* TOTAL row alone, with value 0.
C4_SumEqualsTotal ==
    /\ pc = "done" => SumValues(HoldingRows(df)) = df[Len(df)].Value
    /\ (holdings = <<>> /\ pc \notin {"start", "loop"}) =>
            (pc = "done" /\ df = <<TotalRow(0)>>)

\* C5: in a returned report the per-holding rows are ordered by value,
\* descending.
C5_SortedDescending ==
    pc = "done" =>
        \A a \in 1..(Len(df) - 2) : df[a].Value >= df[a + 1].Value

\* a report whose two holdings came in ascending order of value
C5_Witness ==
    /\ pc = "done"
    /\ Len(portfolio_data) = 2
    /\ portfolio_data[1].Value < portfolio_data[2].Value
    /\ df[1] = portfolio_data[2]
    /\ df[2] = portfolio_data[1]

\* C6: a returned report has exactly one TOTAL row and it is the last row,
\* however its value compares to the values of the holdings.
C6_TotalRowLast ==
    pc = "done" =>
        /\ Len(df) >= 1
        /\ IsTotalRow(df[Len(df)])
        /\ \A a \in 1..(Len(df) - 1) : ~IsTotalRow(df[a])

\* a report in which a holding is worth more than the total
C6_Witness ==
    /\ pc = "done"
    /\ \E a \in 1..(Len(df) - 1) : df[a].Value > df[Len(df)].Value
    /\ IsTotalRow(df[Len(df)])

\* C7: a holding that no source priced, or whose amount is 0, keeps its row
\* in the report, with value 0 and the label the resolver returned, and adds
\* nothing to the total.
C7_UnpricedHoldingKept ==
    pc = "done" =>
        /\ Len(df) = Len(holdings) + 1
        /\ \A j \in 1..Len(holdings) :
              (results[j] = <<0, "No valid price found">> \/ holdings[j].amount = 0) =>
                 \E a \in 1..(Len(df) - 1) :
                    df[a] = [Symbol |-> Upper(holdings[j].symbol),
                             Amount |-> JNum(holdings[j].amount),
                             Price |-> JNum(results[j][1]),
                             Exchange |-> JStr(results[j][2]),
                             Value |-> 0]
        /\ LET priced == {j \in 1..Len(holdings) :
                             results[j] # <<0, "No valid price found">>
                             /\ holdings[j].amount # 0}
               pricedRows == {a \in 1..(Len(df) - 1) : df[a].Value # 0} IN
           /\ Cardinality(pricedRows) = Cardinality(priced)
           /\ df[Len(df)].Value = PricedWorth(Len(holdings))

\* a report with a holding nothing priced next to a priced holding of amount 0
C7_Witness ==
    /\ pc = "done"
    /\ \E j, l \in 1..Len(holdings) :
          /\ results[j] = <<0, "No valid price found">>
          /\ holdings[j].amount # 0
          /\ results[l] # <<0, "No valid price found">>
          /\ holdings[l].amount = 0

\* C8: for the symbol krw in any letter case every getter returns price 1
\* with no error and does not call _make_request.
C8_QuoteCurrencyPeg ==
    \A a \in 1..Len(calls) :
        symbol \in KrwSpellings =>
            /\ calls[a].out.kind = "return"
            /\ calls[a].out.quote.price = 1
            /\ calls[a].out.quote.error.t = "null"
            /\ calls[a].out.requested = FALSE

\* get_coingecko_price("KRW") came back with the peg
C8_Witness ==
    /\ pc = "called"
    /\ symbol = "KRW"
    /\ k = 4
    /\ calls[1].out.kind = "return"
    /\ calls[1].out.quote = ExchangePrice("Coingecko", 1, PyNone)
    /\ calls[1].out.requested = FALSE

\* C9: a returned ExchangePrice has either a price > 0 and no error, or an
\* error; a price of 0 comes with a non-empty error and no price is negative.
C9_QuoteInvariant ==
    \A a \in 1..Len(calls) :
        calls[a].out.kind = "return" =>
            LET q == calls[a].out.quote IN
            /\ (q.price > 0 /\ q.error.t = "null") # (q.error.t = "str")
            /\ q.price = 0 => (q.error.t = "str" /\ q.error.v # "")
            /\ q.price >= 0

\* C10: no exception escapes get_first_valid_price: after a source answered
\* without a usable quote the next source is probed, and the call returns a
\* (price, source) pair.
C10_MalformedFallsBack ==
    /\ pc # "raised"
    /\ exc = ""
    /\ pc = "resolved" => Len(result) = 2

====
